---- MODULE Spec2Model ----
(***************************************************************************)
(* ProjectFHM.py: fetch World Bank indicators, store them in SQLite, and   *)
(* render a Streamlit dashboard.  main() runs the three stages in order.   *)
(*                                                                         *)
(* Three specifications share the actions below:                           *)
(*   Spec      one run of main() (lines 90-93) against any API responses;  *)
(*   SpecStore store_data_in_sql (lines 35-39) called repeatedly;          *)
(*   SpecDash  build_dashboard (lines 42-87) on any bounded collection.    *)
(***************************************************************************)
EXTENDS Integers, Sequences, FiniteSets, Bags, TLC

VARIABLES
    pc,                   \* position of the run in main / the stage it is in
    i,                    \* index of the next indicator of the fetch loop
    data,                 \* fetch_world_bank_data: the payload parsed last
    financial_data,       \* fetch_world_bank_data: the list of row dicts
    df,                   \* the DataFrame handed to the other two stages
    conn,                 \* store_data_in_sql: the sqlite3 connection
    table,                \* the FinancialData table of africa_finance.db
    available_countries,  \* build_dashboard: df["Country"].unique().tolist()
    selected_countries,   \* build_dashboard: what st.multiselect returned
    df_filtered,          \* build_dashboard: rows of the selected countries
    country_selected,     \* build_dashboard: what st.selectbox returned
    views,                \* what each of the four views has put on the page
    error,                \* the exception that ended the run, or "none"
    failed_at,            \* the step that raised it, or "none"
    log,                  \* history: the external calls made, in order
    faults,               \* history: the classes of bad responses received
    received,             \* history: non-null records received so far
    rewrite,              \* history: the table held this very collection
                          \*   when the connection was opened
    calls                 \* history: store_data_in_sql calls started

vars == <<pc, i, data, financial_data, df, conn, table, available_countries,
          selected_countries, df_filtered, country_selected, views, error,
          failed_at, log, faults, received, rewrite, calls>>

fetchVars == <<i, data, financial_data, faults, received>>
storeVars == <<conn, table, rewrite>>
dashVars  == <<available_countries, selected_countries, df_filtered,
               country_selected, views>>

----------------------------------------------------------------------------
(* Bounds of the model *)

\* Records in one response page (the program asks for per_page=100).
MaxRecords == 2
\* Rows of a collection given directly to the Persister or the Presenter.
MaxRows == 2
\* store_data_in_sql calls in SpecStore.
MaxCalls == 2

BoundedSeq(S, n) == UNION {[1..k -> S] : k \in 0..n}

Range(s) == {s[k] : k \in DOMAIN s}

----------------------------------------------------------------------------
(* Program constants *)

indicators == <<"FX.OWN.TOTL.ZS", "NY.GDP.PCAP.CD", "FP.CPI.TOTL.ZG",
                "BX.KLT.DINV.CD.WD">>

PreferredCountries == <<"Nigeria", "Kenya", "South Africa">>

DataFrameColumns == {"Country", "Year", "Indicator", "Value"}

LineChartPlaceholder == "No data available for selected countries."
StatisticsPlaceholder == "No statistics available for selected countries."
ScatterPlaceholder == "No data available for visualization."
DetailPlaceholder == "No data available for this country."
NoCountriesPlaceholder == "No countries available in the dataset."

----------------------------------------------------------------------------
(* JSON values.  A record's "value" is null or a number; a number n is     *)
(* written <<n>> and null <<>>, so the two never compare equal.            *)

JsonNull == <<>>

\* int(record["date"]) for the annual date strings of the API.
IntOfDate(d) ==
    CASE d = "2019" -> 2019
      [] d = "2020" -> 2020
      [] d = "2021" -> 2021

\* The records the modelled API draws a page from, for the indicator asked.
SampleRecords(indicator) ==
    { [country |-> "Nigeria", date |-> "2019", indicator |-> indicator,
       value |-> JsonNull],
      [country |-> "Nigeria", date |-> "2019", indicator |-> indicator,
       value |-> <<0>>],
      [country |-> "Kenya", date |-> "2020", indicator |-> indicator,
       value |-> <<7>>] }

\* Payloads response.json() can return.
NoData == [is_list |-> FALSE, len |-> 0, iterable |-> FALSE, records |-> <<>>]
\* a JSON object, e.g. an error document
ErrorObject == [is_list |-> FALSE, len |-> 1, iterable |-> FALSE,
                records |-> <<>>]
\* [{"message": [...]}]: a one-element list
MessageList == [is_list |-> TRUE, len |-> 1, iterable |-> FALSE,
                records |-> <<>>]
\* [metadata, null]: a two-element list whose second element is null
NullPage == [is_list |-> TRUE, len |-> 2, iterable |-> FALSE,
             records |-> <<>>]
\* [metadata, [records...]]
RecordPage(rs) == [is_list |-> TRUE, len |-> 2, iterable |-> TRUE,
                   records |-> rs]

\* What one GET can come back with.
Responses(indicator) ==
    { [outcome |-> "request_error", data |-> NoData],
      [outcome |-> "json_error", data |-> NoData],
      [outcome |-> "parsed", data |-> ErrorObject],
      [outcome |-> "parsed", data |-> MessageList],
      [outcome |-> "parsed", data |-> NullPage] }
    \cup { [outcome |-> "parsed", data |-> RecordPage(rs)] :
             rs \in BoundedSeq(SampleRecords(indicator), MaxRecords) }

\* The class of a response that is not well-formed, by its shape alone.
FaultClass(response) ==
    IF response.outcome = "request_error" THEN {"request_failure"}
    ELSE IF response.outcome = "json_error" THEN {"not_json"}
    ELSE IF ~response.data.is_list \/ response.data.len < 2
         THEN {"no_second_element"}
    ELSE IF ~response.data.iterable THEN {"no_record_list"}
    ELSE {}

NonNullPositions(rs) == {k \in DOMAIN rs : rs[k].value # JsonNull}

----------------------------------------------------------------------------
(* fetch_world_bank_data *)

\* Lines 19-20: requests.get(url) and response.json(), either of which raises.
FetchedSwallowsRequestError(response) ==
    IF response.outcome = "request_error"
    THEN [raised |-> "none", data |-> ErrorObject]
    ELSE IF response.outcome = "json_error"
    THEN [raised |-> "JSONDecodeError", data |-> NoData]
    ELSE [raised |-> "none", data |-> response.data]

Fetched(response) ==
    IF response.outcome = "request_error"
    THEN [raised |-> "ConnectionError", data |-> NoData]
    ELSE IF response.outcome = "json_error"
    THEN [raised |-> "JSONDecodeError", data |-> NoData]
    ELSE [raised |-> "none", data |-> response.data]

\* Line 25: if record["value"] is not None
KeepAll(record) == TRUE

KeepTruthy(record) == record.value # JsonNull /\ record.value # <<0>>

Keep(record) == record.value # JsonNull

\* Lines 26-31: the row dict of one record.
RowOf(record) ==
    [Country |-> record.country, Year |-> IntOfDate(record.date),
     Indicator |-> record.indicator, Value |-> record.value]

\* Lines 24-31: the loop over the records of one page.
RECURSIVE AppendRecords(_, _)
AppendRecords(fd, records) ==
    IF records = <<>> THEN fd
    ELSE AppendRecords(IF Keep(Head(records))
                       THEN Append(fd, RowOf(Head(records)))
                       ELSE fd,
                       Tail(records))

\* Line 32: pd.DataFrame(list of dicts); an empty list gives no columns.
DataFrame(fd) ==
    [columns |-> IF fd = <<>> THEN {} ELSE DataFrameColumns, rows |-> fd]

Raise(exception, step) ==
    /\ pc' = "aborted"
    /\ error' = exception
    /\ failed_at' = step

\* Lines 17-31: one iteration of the loop over the indicators.
Request ==
    /\ pc = "fetch"
    /\ i <= Len(indicators)
    /\ \E response \in Responses(indicators[i]) :
         LET got == Fetched(response) IN
         /\ log' = Append(log, <<"get", indicators[i]>>)
         /\ faults' = faults \cup FaultClass(response)
         /\ received' = received
                        + Cardinality(NonNullPositions(response.data.records))
         /\ IF got.raised # "none"
            THEN /\ Raise(got.raised, "fetch")
                 /\ UNCHANGED <<i, data, financial_data>>
            ELSE /\ data' = got.data
                 /\ IF got.data.is_list /\ got.data.len > 1
                    THEN IF ~got.data.iterable
                         THEN /\ Raise("TypeError", "fetch")
                              /\ UNCHANGED <<i, financial_data>>
                         ELSE /\ financial_data' =
                                   AppendRecords(financial_data,
                                                 got.data.records)
                              /\ i' = i + 1
                              /\ UNCHANGED <<pc, error, failed_at>>
                    ELSE /\ i' = i + 1
                         /\ UNCHANGED <<pc, error, failed_at, financial_data>>
    /\ UNCHANGED <<df, calls>>
    /\ UNCHANGED storeVars
    /\ UNCHANGED dashVars

\* Line 32 and main line 91: the loop is over, the DataFrame is returned.
FetchReturn ==
    /\ pc = "fetch"
    /\ i > Len(indicators)
    /\ df' = DataFrame(financial_data)
    /\ pc' = "connect"
    /\ data' = NoData
    /\ financial_data' = <<>>
    /\ UNCHANGED <<i, faults, received, error, failed_at, log, calls>>
    /\ UNCHANGED storeVars
    /\ UNCHANGED dashVars

----------------------------------------------------------------------------
(* store_data_in_sql *)

Absent == [exists |-> FALSE, rows |-> <<>>]

\* Line 37: df.to_sql("FinancialData", conn, if_exists="replace", index=False)
\* when it succeeds: the table is dropped, created again and filled with the
\* frame's rows in order.
to_sql_append(tbl, frame) == [exists |-> TRUE, rows |-> tbl.rows \o frame.rows]

RECURSIVE Distinct(_)
Distinct(s) ==
    IF s = <<>> THEN <<>>
    ELSE LET front == Distinct(SubSeq(s, 1, Len(s) - 1)) IN
         IF s[Len(s)] \in Range(front) THEN front
         ELSE Append(front, s[Len(s)])

to_sql_unique(tbl, frame) == [exists |-> TRUE, rows |-> Distinct(frame.rows)]

to_sql(tbl, frame) == [exists |-> TRUE, rows |-> frame.rows]

\* Line 36: conn = sqlite3.connect("africa_finance.db")
StoreConnect ==
    /\ pc = "connect"
    /\ conn' = "open"
    /\ rewrite' = (table.exists /\ table.rows = df.rows)
    /\ log' = Append(log, <<"connect", "africa_finance.db">>)
    /\ pc' = "to_sql"
    /\ UNCHANGED <<df, table, error, failed_at, calls>>
    /\ UNCHANGED fetchVars
    /\ UNCHANGED dashVars

\* Line 37.  The write raises when the storage fails, and always for a frame
\* without columns (CREATE TABLE with an empty column list is rejected by
\* SQLite); the old table is then either still there or already dropped.
\* Nothing catches the exception, so lines 38-39 are not run.
ToSql ==
    /\ pc = "to_sql"
    /\ log' = Append(log, <<"to_sql", "FinancialData">>)
    /\ \E storage_fails \in BOOLEAN :
         IF storage_fails \/ df.columns = {}
         THEN /\ \E left \in {table, Absent} : table' = left
              /\ Raise("DatabaseError", "to_sql")
         ELSE /\ table' = to_sql(table, df)
              /\ pc' = "commit"
              /\ UNCHANGED <<error, failed_at>>
    /\ UNCHANGED <<df, conn, rewrite, calls>>
    /\ UNCHANGED fetchVars
    /\ UNCHANGED dashVars

\* Line 38: conn.commit()
Commit ==
    /\ pc = "commit"
    /\ log' = Append(log, <<"commit", "africa_finance.db">>)
    /\ pc' = "close"
    /\ UNCHANGED <<df, error, failed_at, calls>>
    /\ UNCHANGED storeVars
    /\ UNCHANGED fetchVars
    /\ UNCHANGED dashVars

\* Line 39: conn.close(), and the return to main line 93.
CloseForgotten ==
    /\ pc = "close"
    /\ log' = Append(log, <<"close", "africa_finance.db">>)
    /\ pc' = "build_dashboard"
    /\ UNCHANGED <<df, error, failed_at, calls>>
    /\ UNCHANGED storeVars
    /\ UNCHANGED fetchVars
    /\ UNCHANGED dashVars

Close ==
    /\ pc = "close"
    /\ conn' = "closed"
    /\ log' = Append(log, <<"close", "africa_finance.db">>)
    /\ pc' = "build_dashboard"
    /\ UNCHANGED <<df, table, rewrite, error, failed_at, calls>>
    /\ UNCHANGED fetchVars
    /\ UNCHANGED dashVars

----------------------------------------------------------------------------
(* build_dashboard *)

NoView == [kind |-> "none", content |-> ""]
Text(message) == [kind |-> "text", content |-> message]

NoViews == [line_chart |-> NoView, statistics |-> NoView, scatter |-> NoView,
            detail |-> NoView]

\* Series.unique().tolist(): the distinct values in order of first appearance.
RECURSIVE Unique(_)
Unique(s) ==
    IF s = <<>> THEN <<>>
    ELSE LET front == Unique(SubSeq(s, 1, Len(s) - 1)) IN
         IF s[Len(s)] \in Range(front) THEN front
         ELSE Append(front, s[Len(s)])

CountryColumn(frame) == [k \in DOMAIN frame.rows |-> frame.rows[k].Country]

\* Line 47: the preferred countries that are available, in preferred order.
DefaultCountries(available) ==
    SelectSeq(PreferredCountries, LAMBDA c : c \in Range(available))

\* Lines 49 and 81: boolean-mask row selection; the columns are kept.
RowsOf(frame, countries) ==
    [columns |-> frame.columns,
     rows |-> SelectSeq(frame.rows, LAMBDA r : r.Country \in countries)]

\* DataFrame.empty: some axis has length 0.
EmptyOnlyWithoutColumns(frame) == frame.columns = {}

Empty(frame) == frame.columns = {} \/ frame.rows = <<>>

\* DataFrame.pivot(index="Year", columns="Indicator", values="Value") raises
\* ValueError when two rows share (Year, Indicator).
PivotRaises(rows) ==
    \E j, k \in DOMAIN rows :
        /\ j # k
        /\ rows[j].Year = rows[k].Year
        /\ rows[j].Indicator = rows[k].Indicator

NaN == <<>>

\* The pivot: one row per year, one column per indicator, NaN where the
\* rows hold no observation.
Pivot(rows) ==
    LET index == {rows[k].Year : k \in DOMAIN rows}
        columns == {rows[k].Indicator : k \in DOMAIN rows}
        at(y, c) == {k \in DOMAIN rows :
                        rows[k].Year = y /\ rows[k].Indicator = c}
    IN  [index |-> index,
         columns |-> columns,
         cell |-> [p \in index \X columns |->
                      IF at(p[1], p[2]) = {} THEN NaN
                      ELSE rows[CHOOSE k \in at(p[1], p[2]) : TRUE].Value]]

Min(S) == CHOOSE x \in S : \A y \in S : x <= y
Max(S) == CHOOSE x \in S : \A y \in S : x >= y

\* groupby("Country")["Value"].describe(): per country the count, min and
\* max of the values (the mean, std and quartiles are not integers and are
\* left out of the model).
Describe(rows) ==
    LET of(c) == {k \in DOMAIN rows : rows[k].Country = c} IN
    [c \in {rows[k].Country : k \in DOMAIN rows} |->
        [count |-> Cardinality(of(c)),
         min |-> Min({rows[k].Value[1] : k \in of(c)}),
         max |-> Max({rows[k].Value[1] : k \in of(c)})]]

\* Lines 43-49: the page header, the multiselect and the filtered frame.
\* df["Country"] raises KeyError on a frame without that column.  The
\* multiselect returns its default or any subset of the options the user
\* picked.
DashStart ==
    /\ pc = "build_dashboard"
    /\ log' = Append(log, <<"render", "streamlit">>)
    /\ IF "Country" \notin df.columns
       THEN /\ Raise("KeyError", "build_dashboard")
            /\ UNCHANGED dashVars
       ELSE LET available == Unique(CountryColumn(df)) IN
            /\ available_countries' = available
            /\ \E selected \in {Range(DefaultCountries(available))}
                               \cup SUBSET Range(available) :
                 /\ selected_countries' = selected
                 /\ df_filtered' = RowsOf(df, selected)
            /\ pc' = "line_chart"
            /\ UNCHANGED <<country_selected, views, error, failed_at>>
    /\ UNCHANGED <<df, calls>>
    /\ UNCHANGED fetchVars
    /\ UNCHANGED storeVars

\* Lines 53-58: the line chart of the pivot, or its placeholder.
LineChart ==
    /\ pc = "line_chart"
    /\ IF ~Empty(df_filtered)
       THEN IF PivotRaises(df_filtered.rows)
            THEN /\ Raise("ValueError", "line_chart")
                 /\ UNCHANGED views
            ELSE /\ views' = [views EXCEPT !.line_chart =
                        [kind |-> "line_chart",
                         content |-> Pivot(df_filtered.rows)]]
                 /\ pc' = "statistics"
                 /\ UNCHANGED <<error, failed_at>>
       ELSE /\ views' = [views EXCEPT !.line_chart =
                            Text(LineChartPlaceholder)]
            /\ pc' = "statistics"
            /\ UNCHANGED <<error, failed_at>>
    /\ UNCHANGED <<df, available_countries, selected_countries, df_filtered,
                   country_selected, log, calls>>
    /\ UNCHANGED fetchVars
    /\ UNCHANGED storeVars

\* Lines 60-65: the describe() table, or its placeholder.
Statistics ==
    /\ pc = "statistics"
    /\ views' = [views EXCEPT !.statistics =
                    IF ~Empty(df_filtered)
                    THEN [kind |-> "table",
                          content |-> Describe(df_filtered.rows)]
                    ELSE Text(StatisticsPlaceholder)]
    /\ pc' = "scatter"
    /\ UNCHANGED <<df, available_countries, selected_countries, df_filtered,
                   country_selected, error, failed_at, log, calls>>
    /\ UNCHANGED fetchVars
    /\ UNCHANGED storeVars

\* Lines 67-76: the scatter plot of the filtered rows, or its placeholder.
Scatter ==
    /\ pc = "scatter"
    /\ views' = [views EXCEPT !.scatter =
                    IF ~Empty(df_filtered)
                    THEN [kind |-> "figure", content |-> df_filtered.rows]
                    ELSE Text(ScatterPlaceholder)]
    /\ pc' = "detail"
    /\ UNCHANGED <<df, available_countries, selected_countries, df_filtered,
                   country_selected, error, failed_at, log, calls>>
    /\ UNCHANGED fetchVars
    /\ UNCHANGED storeVars

\* Lines 78-87: the selectbox over all countries and that country's pivot.
Detail ==
    /\ pc = "detail"
    /\ IF available_countries # <<>>
       THEN \E chosen \in Range(available_countries) :
              LET df_country == RowsOf(df, {chosen}) IN
              /\ country_selected' = chosen
              /\ IF ~Empty(df_country)
                 THEN IF PivotRaises(df_country.rows)
                      THEN /\ Raise("ValueError", "detail")
                           /\ UNCHANGED views
                      ELSE /\ views' = [views EXCEPT !.detail =
                                  [kind |-> "table",
                                   content |-> Pivot(df_country.rows)]]
                           /\ pc' = "done"
                           /\ UNCHANGED <<error, failed_at>>
                 ELSE /\ views' = [views EXCEPT !.detail =
                                      Text(DetailPlaceholder)]
                      /\ pc' = "done"
                      /\ UNCHANGED <<error, failed_at>>
       ELSE /\ views' = [views EXCEPT !.detail =
                            Text(NoCountriesPlaceholder)]
            /\ pc' = "done"
            /\ UNCHANGED <<country_selected, error, failed_at>>
    /\ UNCHANGED <<df, available_countries, selected_countries, df_filtered,
                   log, calls>>
    /\ UNCHANGED fetchVars
    /\ UNCHANGED storeVars

----------------------------------------------------------------------------
(* Specifications *)

\* What the table can hold when a run starts: nothing (no run before), or
\* the rows an earlier run stored.
OldRow == [Country |-> "Ghana", Year |-> 2018,
           Indicator |-> "NY.GDP.PCAP.CD", Value |-> <<3>>]

TablePriors == {Absent, to_sql(Absent, DataFrame(<<OldRow>>))}

Start ==
    /\ i = 1
    /\ data = NoData
    /\ financial_data = <<>>
    /\ conn = "none"
    /\ available_countries = <<>>
    /\ selected_countries = {}
    /\ df_filtered = DataFrame(<<>>)
    /\ country_selected = ""
    /\ views = NoViews
    /\ error = "none"
    /\ failed_at = "none"
    /\ log = <<>>
    /\ faults = {}
    /\ received = 0

\* main(), lines 90-93: one run, from the first request on.
Init ==
    /\ Start
    /\ pc = "fetch"
    /\ df = DataFrame(<<>>)
    /\ table \in TablePriors
    /\ calls = 0
    /\ rewrite = FALSE

Next ==
    \/ Request
    \/ FetchReturn
    \/ StoreConnect
    \/ ToSql
    \/ Commit
    \/ Close
    \/ DashStart
    \/ LineChart
    \/ Statistics
    \/ Scatter
    \/ Detail

Spec == Init /\ [][Next]_vars

\* store_data_in_sql called again and again by a caller that holds any
\* collection the Fetcher can return.
StoreRows ==
    { [Country |-> "Nigeria", Year |-> 2019, Indicator |-> "NY.GDP.PCAP.CD",
       Value |-> <<0>>],
      [Country |-> "Kenya", Year |-> 2020, Indicator |-> "FP.CPI.TOTL.ZG",
       Value |-> <<7>>] }

StoreFrames == {DataFrame(fd) : fd \in BoundedSeq(StoreRows, MaxRows)}

InitStore ==
    /\ Start
    /\ pc = "connect"
    /\ df \in StoreFrames
    /\ table \in TablePriors
    /\ calls = 1
    /\ rewrite = FALSE

\* The caller has the call's outcome (a return or an exception) and calls
\* store_data_in_sql again.
NextCall ==
    /\ pc \in {"build_dashboard", "aborted"}
    /\ calls < MaxCalls
    /\ calls' = calls + 1
    /\ \E frame \in StoreFrames : df' = frame
    /\ pc' = "connect"
    /\ conn' = "none"
    /\ error' = "none"
    /\ failed_at' = "none"
    /\ log' = <<>>
    /\ UNCHANGED <<table, rewrite>>
    /\ UNCHANGED fetchVars
    /\ UNCHANGED dashVars

NextStore ==
    \/ StoreConnect
    \/ ToSql
    \/ Commit
    \/ Close
    \/ NextCall

SpecStore == InitStore /\ [][NextStore]_vars

\* build_dashboard on any collection the Fetcher can return.
DashRows ==
    [Country : {"Nigeria", "Kenya"}, Year : {2019, 2020},
     Indicator : {"NY.GDP.PCAP.CD", "FX.OWN.TOTL.ZS"},
     Value : {<<1>>, <<2>>}]

DashFrames == {DataFrame(fd) : fd \in BoundedSeq(DashRows, MaxRows)}

InitDash ==
    /\ Start
    /\ pc = "build_dashboard"
    /\ df \in DashFrames
    /\ table = Absent
    /\ calls = 0
    /\ rewrite = FALSE

NextDash ==
    \/ DashStart
    \/ LineChart
    \/ Statistics
    \/ Scatter
    \/ Detail

SpecDash == InitDash /\ [][NextDash]_vars

----------------------------------------------------------------------------
(* Properties *)

Logged(call) == \E k \in DOMAIN log : log[k][1] = call
Wrote == Logged("to_sql")
Rendered == Logged("render")

\* C1: no row of the collection built by fetch_world_bank_data, while it is
\* built or once it is returned, has a null Value.
C1_NoNullValueInOutput ==
    /\ \A k \in DOMAIN financial_data : financial_data[k].Value # JsonNull
    /\ \A k \in DOMAIN df.rows : df.rows[k].Value # JsonNull

\* The loop has ended on a page that held a null-valued record, and rows of
\* other records were collected.
C1_Witness ==
    /\ pc = "fetch"
    /\ i > Len(indicators)
    /\ \E k \in DOMAIN data.records : data.records[k].value = JsonNull
    /\ financial_data # <<>>

\* C2: each well-formed page adds exactly its non-null records to the end
\* of the collection, one row each in the page's order and under the
\* indicator asked, leaving the earlier rows alone; and when all responses
\* were well-formed the returned collection has as many rows as non-null
\* records were received.
C2_RowsAreTheNonNullRecords ==
    [][ /\ (pc = "fetch" /\ i' = i + 1 /\ data'.iterable) =>
             LET rs == data'.records
                 n == Len(financial_data)
                 kept == NonNullPositions(rs)
             IN  /\ Len(financial_data') = n + Cardinality(kept)
                 /\ SubSeq(financial_data', 1, n) = financial_data
                 /\ \A k \in kept :
                      financial_data'[n + Cardinality({j \in kept : j <= k})]
                        = [Country |-> rs[k].country,
                           Year |-> IntOfDate(rs[k].date),
                           Indicator |-> indicators[i],
                           Value |-> rs[k].value]
        /\ (pc = "fetch" /\ pc' = "connect" /\ faults' = {}) =>
             /\ df'.rows = financial_data
             /\ Len(df'.rows) = received'
      ]_vars

\* Four well-formed pages were received and the returned collection holds
\* rows of several indicators, two of them equal but for the indicator and
\* two of them equal outright (a record the API sent twice).
C2_Witness ==
    /\ pc = "connect"
    /\ faults = {}
    /\ received = Len(df.rows)
    /\ Len(df.rows) >= 3
    /\ \E j, k \in DOMAIN df.rows : j < k /\ df.rows[j] = df.rows[k]
    /\ \E j, k \in DOMAIN df.rows :
         j < k /\ df.rows[j].Indicator # df.rows[k].Indicator

TupleOf(row) == <<row.Country, row.Year, row.Indicator, row.Value>>

TupleBag(rows) ==
    [t \in {TupleOf(rows[k]) : k \in DOMAIN rows} |->
        Cardinality({k \in DOMAIN rows : TupleOf(rows[k]) = t})]

Placeholders ==
    /\ views.line_chart = Text(LineChartPlaceholder)
    /\ views.statistics = Text(StatisticsPlaceholder)
    /\ views.scatter = Text(ScatterPlaceholder)

\* C5: build_dashboard on the empty collection raises nothing and ends
\* with every view showing its placeholder text.
C5_EmptyCollectionShowsPlaceholders ==
    (df.rows = <<>> /\ pc \in {"done", "aborted"}) =>
        /\ pc = "done"
        /\ error = "none"
        /\ Placeholders
        /\ views.detail.kind = "text"

RaisingFaults == {"request_failure", "not_json", "no_record_list"}

OnePerPivotCell(rows) ==
    \A j, k \in DOMAIN rows :
        (rows[j].Year = rows[k].Year /\ rows[j].Indicator = rows[k].Indicator)
            => j = k

CountryRows(c) == SelectSeq(df.rows, LAMBDA r : r.Country = c)

\* C7 as claimed: with nothing selected, on any collection that has a
\* country, build_dashboard ends without an error and the three views that
\* depend on the selection show their placeholders.
C7_EmptySelectionShowsPlaceholders ==
    (pc \in {"done", "aborted"} /\ df.rows # <<>> /\ selected_countries = {})
        => (pc = "done" /\ error = "none" /\ Placeholders)

\* C7 as amended: the same, for collections that hold at most one
\* observation per (Year, Indicator) for the country chosen in the detail
\* dropdown.
C7_EmptySelectionNoDuplicates ==
    ( /\ pc \in {"done", "aborted"}
      /\ df.rows # <<>>
      /\ selected_countries = {}
      /\ OnePerPivotCell(CountryRows(country_selected)) )
        => (pc = "done" /\ error = "none" /\ Placeholders)

\* build_dashboard has ended on a two-row collection with nothing selected:
\* the three placeholders are shown and the detail table is rendered.
C7_Witness ==
    /\ pc = "done"
    /\ selected_countries = {}
    /\ Len(df.rows) = 2
    /\ Placeholders
    /\ views.detail.kind = "table"

OnePerTriple(rows) ==
    \A j, k \in DOMAIN rows :
        ( /\ rows[j].Country = rows[k].Country
          /\ rows[j].Year = rows[k].Year
          /\ rows[j].Indicator = rows[k].Indicator ) => j = k

\* C8: for a collection with at most one observation per (Country, Year,
\* Indicator) and a non-empty selection, the line-chart step raises nothing
\* and shows a pivot with one row per year and one column per indicator of
\* the filtered rows, each filtered observation's value in its cell.
C8_LineChartPivot ==
    ( /\ OnePerTriple(df.rows)
      /\ selected_countries # {}
      /\ pc \in {"statistics", "scatter", "detail", "done", "aborted"}
      /\ failed_at # "build_dashboard" )
        => /\ failed_at # "line_chart"
           /\ views.line_chart.kind = "line_chart"
           /\ LET rows == df_filtered.rows
                  shown == views.line_chart.content
              IN  /\ shown.index = {rows[k].Year : k \in DOMAIN rows}
                  /\ shown.columns = {rows[k].Indicator : k \in DOMAIN rows}
                  /\ \A k \in DOMAIN rows :
                       shown.cell[<<rows[k].Year, rows[k].Indicator>>]
                         = rows[k].Value

IsPrefix(s, t) ==
    /\ Len(s) <= Len(t)
    /\ \A k \in DOMAIN s : s[k] = t[k]

RunOrder ==
    [k \in DOMAIN indicators |-> <<"get", indicators[k]>>]
    \o << <<"connect", "africa_finance.db">>, <<"to_sql", "FinancialData">>,
          <<"commit", "africa_finance.db">>, <<"close", "africa_finance.db">>,
          <<"render", "streamlit">> >>

\* C9 as claimed: the calls of a run are made in the order request x 4,
\* connect, to_sql, commit, close, render, and a run that has ended has
\* closed the connection if it opened it.
C9_OrderedAndAlwaysClosed ==
    /\ IsPrefix(log, RunOrder)
    /\ (pc \in {"done", "aborted"} /\ Logged("connect")) => conn = "closed"

\* C9 as amended: the calls of a run are made in that order (a run that
\* aborts stops partway), so the connection is opened at most once; it is
\* committed and closed before anything is rendered; and a run whose table
\* write fails ends with the connection opened and never closed.
C9_OrderedAndClosedOnSuccess ==
    /\ IsPrefix(log, RunOrder)
    /\ (conn # "none") = Logged("connect")
    /\ Rendered => (conn = "closed" /\ Logged("commit") /\ Logged("close"))
    /\ conn = "closed" => Logged("close")
    /\ (pc = "aborted" /\ failed_at = "to_sql") =>
           (conn = "open" /\ ~Logged("commit") /\ ~Logged("close"))

\* A run has completed: every call was made, the connection is closed.
C9_Witness ==
    /\ pc = "done"
    /\ log = RunOrder
    /\ conn = "closed"

\* C10: on a collection with a country (here one that holds at most one
\* observation per (Country, Year, Indicator)), whatever the multi-select
\* holds, build_dashboard ends with the detail view showing the year x
\* indicator pivot of a country of the collection, never a placeholder.
C10_DetailAlwaysRenders ==
    (df.rows # <<>> /\ OnePerTriple(df.rows) /\ pc \in {"done", "aborted"}) =>
        /\ country_selected \in Range(CountryColumn(df))
        /\ CountryRows(country_selected) # <<>>
        /\ views.detail.kind = "table"
        /\ LET rows == CountryRows(country_selected)
               shown == views.detail.content
           IN  /\ shown.index = {rows[k].Year : k \in DOMAIN rows}
               /\ shown.columns = {rows[k].Indicator : k \in DOMAIN rows}
               /\ \A k \in DOMAIN rows :
                    shown.cell[<<rows[k].Year, rows[k].Indicator>>]
                      = rows[k].Value

====
